---- MODULE Spec2Model ----
(***************************************************************************)
(* The durable task store (tasks.py), the research daemon                 *)
(* (research_daemon.py) and the step cache and the isolated executor      *)
(* (libjobsearch.py) of recruiter-messager.                                *)
(*                                                                         *)
(* The store is one SQLite table; a row is modelled as a record and the    *)
(* table as the sequence of its rows in rowid (insertion) order.  Python   *)
(* None and SQL NULL are the empty tuple, a present value x is <<x>>.      *)
(***************************************************************************)
EXTENDS Naturals, Sequences, FiniteSets, TLC

VARIABLES tasks,      \* the rows of table tasks, in rowid order
          born,       \* history: the clock reading at which each row was inserted
          now,        \* the wall clock read by datetime.utcnow()
          companies,  \* the company repository: name -> None or <<record>>
          pc,         \* per daemon: its position in start()/process_next_task()
          running,    \* per daemon: self.running
          cur,        \* per daemon: the row returned by get_next_pending_task
          exc,        \* per daemon: the exception the handler raised, if any
          claimedBy,  \* history: task id -> the daemons that received the task
          call,       \* the most recent store call and how it ended
          outages,    \* the number of store calls of the daemon that will yet fail
          stages,     \* history: what the stages of the research in progress did
          cache,          \* the diskcache directory: key -> absent or <<entry>>
          cache_settings, \* the CacheSettings of the running program
          program,        \* which __main__ runs: "off", "cli" or "daemon"
          ncalls,         \* the number of cache operations of the run so far
          stored,         \* history: the keys set during the run
          removed,        \* history: the keys whose entry was removed and not set since
          kept,           \* history: the keys set by processes that have died since
          last,           \* the most recent call of a wrapped stage and what it did
          render,         \* two calls of one wrapped stage and their keys
          child,          \* the child process of run_in_process
          parent,         \* the position of the parent in run_in_process
          target,         \* func.__name__ of the function run in the child
          error_queue,    \* multiprocessing.Queue: what put() buffered, what is in the pipe
          result_queue,   \* the same for the result queue
          did,            \* history: how func ended in the child
          parent_result,  \* the item the parent took from result_queue
          outcome,        \* what run_in_process returns or raises
          expired,        \* history: result_queue.get ran into the timeout
          signals         \* history: the signals the parent sent to the child

taskVars == <<tasks, born, now, companies, pc, running, cur, exc, claimedBy, call,
              outages, stages>>
cacheVars == <<cache, cache_settings, program, ncalls, stored, removed, kept, last>>
execVars == <<child, parent, target, error_queue, result_queue, did, parent_result,
              outcome, expired, signals>>

vars == <<tasks, born, now, companies, pc, running, cur, exc, claimedBy, call, outages,
          stages,
          cache, cache_settings, program, ncalls, stored, removed, kept, last, render,
          child, parent, target, error_queue, result_queue, did, parent_result,
          outcome, expired, signals>>

-----------------------------------------------------------------------------
(* Bounds of the model *)

MaxTasks == 2
MaxTime == 2
TicksPerSecond == 2
MaxCalls == 3
MaxLen == 3
MaxOutages == 2

-----------------------------------------------------------------------------
(* Python values *)

None == <<>>
Some(x) == <<x>>

StrKey(s) == [t |-> "str", v |-> s]
IntKey(s) == [t |-> "int", v |-> s]

\* A dict is the sequence of its <<key, value>> items, in insertion order.
DictGet(d, k) == LET i == CHOOSE i \in DOMAIN d : d[i][1] = k IN d[i][2]
DictHas(d, k) == \E i \in DOMAIN d : d[i][1] = k

\* json.dumps of a dict: a JSON object's member names are strings, so every
\* key is written as its text; json.loads gives every key back as a str.
JsonDumps(d) == [i \in DOMAIN d |-> <<d[i][1].v, d[i][2]>>]
JsonLoads(j) == [i \in DOMAIN j |-> <<StrKey(j[i][1]), j[i][2]>>]

\* Truth value of an Optional[dict]: None and the empty dict are false.
Truthy(optDict) == optDict # None /\ Len(optDict[1]) > 0

-----------------------------------------------------------------------------
(* tasks.py: the enums *)

PENDING == "PENDING"
RUNNING == "RUNNING"
COMPLETED == "COMPLETED"
FAILED == "FAILED"
TaskStatus == {PENDING, RUNNING, COMPLETED, FAILED}

COMPANY_RESEARCH == "COMPANY_RESEARCH"
GENERATE_REPLY == "GENERATE_REPLY"
TaskType == {COMPANY_RESEARCH, GENERATE_REPLY}

\* An object that has a .value but is no member of TaskType.
ForeignType == "BOGUS"

\* member.value, the text that is stored
Value(member) ==
    CASE member = PENDING          -> "pending"
      [] member = RUNNING          -> "running"
      [] member = COMPLETED        -> "completed"
      [] member = FAILED           -> "failed"
      [] member = COMPANY_RESEARCH -> "company_research"
      [] member = GENERATE_REPLY   -> "generate_reply"
      [] member = ForeignType      -> "bogus"

\* Enum(text): the member with that value; ValueError when there is none.
IsValueOf(enum, text) == \E m \in enum : Value(m) = text
FromValue(enum, text) == CHOOSE m \in enum : Value(m) = text

-----------------------------------------------------------------------------
(* datetime.utcnow().isoformat() and the comparison of TEXT columns *)

\* isoformat() leaves the fraction out when the microsecond is 0.
IsoFormat(t) ==
    IF t % TicksPerSecond = 0
    THEN <<t \div TicksPerSecond>>
    ELSE <<t \div TicksPerSecond, t % TicksPerSecond>>

\* SQLite compares TEXT bytewise; a proper prefix sorts first.
TextLess(a, b) ==
    \E k \in 1..Len(b) :
        /\ k <= Len(a) + 1
        /\ \A j \in 1..(k - 1) : a[j] = b[j]
        /\ (k = Len(a) + 1 \/ a[k] < b[k])

-----------------------------------------------------------------------------
(* tasks.py: TaskManager *)

Ids(rows) == {rows[i].id : i \in DOMAIN rows}

\* uuid.uuid4(): an identifier no row has yet.
FreshId(rows) == Len(rows) + 1

\* (an INSERT that also writes update_task's default error, "")
create_task_blank_error(rows, task_type, args, t) ==
    Append(rows, [id         |-> FreshId(rows),
                  type       |-> Value(task_type),
                  args       |-> JsonDumps(args),
                  status     |-> Value(PENDING),
                  result     |-> None,
                  error      |-> Some(""),
                  created_at |-> IsoFormat(t),
                  updated_at |-> IsoFormat(t)])

\* INSERT INTO tasks (id, type, args, status, created_at, updated_at):
\* result and error are left NULL.
create_task(rows, task_type, args, t) ==
    Append(rows, [id         |-> FreshId(rows),
                  type       |-> Value(task_type),
                  args       |-> JsonDumps(args),
                  status     |-> Value(PENDING),
                  result     |-> None,
                  error      |-> None,
                  created_at |-> IsoFormat(t),
                  updated_at |-> IsoFormat(t)])

\* UPDATE tasks SET status, result, error, updated_at WHERE id = task_id
\* (an UPDATE without its WHERE clause: every row is written)
update_task_every_row(rows, task_id, status, result, error, t) ==
    [i \in DOMAIN rows |->
        [rows[i] EXCEPT !.status     = Value(status),
                        !.result     = IF Truthy(result)
                                       THEN Some(JsonDumps(result[1]))
                                       ELSE None,
                        !.error      = Some(error),
                        !.updated_at = IsoFormat(t)]]

update_task(rows, task_id, status, result, error, t) ==
    [i \in DOMAIN rows |->
        IF rows[i].id = task_id
        THEN [rows[i] EXCEPT !.status     = Value(status),
                             !.result     = IF Truthy(result)
                                            THEN Some(JsonDumps(result[1]))
                                            ELSE None,
                             !.error      = Some(error),
                             !.updated_at = IsoFormat(t)]
        ELSE rows[i]]

\* update_task has no branch that raises: an UPDATE that matches no row
\* is not an error in SQLite.
update_task_raises(rows, task_id) == FALSE

\* (a get_task that answers an id it does not find with a blank task)
get_task_blank(rows, task_id) ==
    IF task_id \notin Ids(rows)
    THEN Some([id |-> task_id, type |-> COMPANY_RESEARCH, args |-> <<>>,
               status |-> PENDING, result |-> None, error |-> Some(""),
               created_at |-> IsoFormat(0), updated_at |-> IsoFormat(0)])
    ELSE LET row == rows[CHOOSE i \in DOMAIN rows : rows[i].id = task_id]
         IN  Some([id         |-> row.id,
                   type       |-> FromValue(TaskType, row.type),
                   args       |-> JsonLoads(row.args),
                   status     |-> FromValue(TaskStatus, row.status),
                   result     |-> IF row.result # None
                                  THEN Some(JsonLoads(row.result[1]))
                                  ELSE None,
                   error      |-> row.error,
                   created_at |-> row.created_at,
                   updated_at |-> row.updated_at])

\* get_task: None, or the row as a dict.  (TaskType(row[1]) raises for a
\* row whose type is no TaskType value; get_task is read here only for
\* rows created through the enum.)
get_task(rows, task_id) ==
    IF task_id \notin Ids(rows)
    THEN None
    ELSE LET row == rows[CHOOSE i \in DOMAIN rows : rows[i].id = task_id]
         IN  Some([id         |-> row.id,
                   type       |-> FromValue(TaskType, row.type),
                   args       |-> JsonLoads(row.args),
                   status     |-> FromValue(TaskStatus, row.status),
                   result     |-> IF row.result # None
                                  THEN Some(JsonLoads(row.result[1]))
                                  ELSE None,
                   error      |-> row.error,
                   created_at |-> row.created_at,
                   updated_at |-> row.updated_at])

\* SELECT ... WHERE status = 'pending' ORDER BY created_at ASC LIMIT 1:
\* one scan in rowid order that keeps the least row seen so far; a later
\* row replaces it only when its created_at is strictly smaller.
\* The result is the index of the row, 0 when there is none.
\* (a scan that lets a later row with an equal created_at win)
RECURSIVE OldestPendingFromLatest(_, _, _)
OldestPendingFromLatest(rows, i, best) ==
    IF i > Len(rows)
    THEN best
    ELSE IF rows[i].status = Value(PENDING)
            /\ (best = 0 \/ ~TextLess(rows[best].created_at, rows[i].created_at))
         THEN OldestPendingFromLatest(rows, i + 1, i)
         ELSE OldestPendingFromLatest(rows, i + 1, best)

RECURSIVE OldestPendingFrom(_, _, _)
OldestPendingFrom(rows, i, best) ==
    IF i > Len(rows)
    THEN best
    ELSE IF rows[i].status = Value(PENDING)
            /\ (best = 0 \/ TextLess(rows[i].created_at, rows[best].created_at))
         THEN OldestPendingFrom(rows, i + 1, i)
         ELSE OldestPendingFrom(rows, i + 1, best)

\* (a SELECT whose WHERE clause also admits the rows that are running)
OldestUnfinished(rows) ==
    IF \E i \in DOMAIN rows : rows[i].status \in {Value(PENDING), Value(RUNNING)}
    THEN CHOOSE i \in DOMAIN rows :
            /\ rows[i].status \in {Value(PENDING), Value(RUNNING)}
            /\ \A j \in 1..(i - 1) :
                  rows[j].status \notin {Value(PENDING), Value(RUNNING)}
    ELSE 0

OldestPending(rows) == OldestPendingFrom(rows, 1, 0)

NoRow == [kind |-> "none", id |-> 0, type |-> "", args |-> <<>>]

\* get_next_pending_task: None, the tuple (id, type, args) of the selected
\* row, or the ValueError of TaskType(text) for a text that is no member.
get_next_pending_task(rows) ==
    LET i == OldestPending(rows)
    IN  IF i = 0
        THEN NoRow
        ELSE IF ~IsValueOf(TaskType, rows[i].type)
             THEN [kind |-> "raise", id |-> 0, type |-> "", args |-> <<>>]
             ELSE [kind |-> "row",
                   id   |-> rows[i].id,
                   type |-> FromValue(TaskType, rows[i].type),
                   args |-> JsonLoads(rows[i].args)]

-----------------------------------------------------------------------------
(* models.py: the company repository, one record per company name *)

CompanyNames == {"Acme"}

NewCompany(initial_message) ==
    [initial_message |-> initial_message, reply_message |-> ""]

-----------------------------------------------------------------------------
(* research_daemon.py: the handlers.  Each gives the repository it leaves *)
(* behind and the exception that left it, if any.                          *)

Returned(repo) == [repo |-> repo, raised |-> FALSE, msg |-> ""]
Raised(repo, msg) == [repo |-> repo, raised |-> TRUE, msg |-> msg]

CompanyNameKey == StrKey("company_name")

\* str(KeyError('company_name'))
KeyErrorText == "'company_name'"
\* str(e) of an exception raised by research_company or generate_reply
ExternalErrorText == "research failed"
\* str(AssertionError()): an assert without a message
AssertionErrorText == ""

\* (a do_research that deletes the old record only once research returned)
do_research_late_delete(args, repo, researchOk) ==
    IF ~DictHas(args, CompanyNameKey)
    THEN Raised(repo, KeyErrorText)
    ELSE LET company_name == DictGet(args, CompanyNameKey)
             existing == repo[company_name]
             initial_message == IF existing # None
                                THEN existing[1].initial_message
                                ELSE None
         IN  IF ~researchOk
             THEN Raised(repo, ExternalErrorText)
             ELSE Returned([repo EXCEPT
                              ![company_name] = Some(NewCompany(initial_message))])

\* do_research; researchOk says whether jobsearch.research_company returns.
do_research(args, repo, researchOk) ==
    IF ~DictHas(args, CompanyNameKey)
    THEN Raised(repo, KeyErrorText)
    ELSE LET company_name == DictGet(args, CompanyNameKey)
             existing == repo[company_name]
             initial_message == IF existing # None
                                THEN existing[1].initial_message
                                ELSE None
             deleted == [repo EXCEPT ![company_name] = None]
         IN  IF ~researchOk
             THEN Raised(deleted, ExternalErrorText)
             ELSE Returned([deleted EXCEPT
                              ![company_name] = Some(NewCompany(initial_message))])

\* do_generate_reply; replyOk says whether jobsearch.generate_reply returns.
do_generate_reply(args, repo, replyOk) ==
    IF ~DictHas(args, CompanyNameKey)
    THEN Raised(repo, AssertionErrorText)
    ELSE LET company_name == DictGet(args, CompanyNameKey)
             company == repo[company_name]
         IN  IF company = None
             THEN Raised(repo, AssertionErrorText)
             ELSE IF company[1].initial_message = None
             THEN Raised(repo, AssertionErrorText)
             ELSE IF ~replyOk
             THEN Raised(repo, ExternalErrorText)
             ELSE Returned([repo EXCEPT ![company_name] =
                              Some([company[1] EXCEPT !.reply_message = "reply"])])

-----------------------------------------------------------------------------
(* The step cache of libjobsearch.py: CacheStep, CacheSettings, the key *)

GET_MESSAGES == 0
RAG_CONTEXT == 1
BASIC_RESEARCH == 2
FOLLOWUP_RESEARCH == 3
REPLY == 4

CacheStep == {GET_MESSAGES, RAG_CONTEXT, BASIC_RESEARCH, FOLLOWUP_RESEARCH, REPLY}

\* CacheSettings: clear_cache is the list of steps given on the command
\* line (or None), of which only membership and emptiness are used.
CacheSettings ==
    [no_cache : BOOLEAN,
     clear_cache : {{}, {BASIC_RESEARCH}},
     cache_until : {None} \cup {Some(s) : s \in CacheStep},
     clear_all_cache : BOOLEAN]

DefaultSettings ==
    [no_cache |-> FALSE, clear_cache |-> {}, cache_until |-> None,
     clear_all_cache |-> FALSE]

\* (a ceiling that excludes the step cache_until names)
should_cache_step_strict(settings, step) ==
    IF settings.no_cache THEN FALSE
    ELSE IF settings.cache_until = None THEN TRUE
    ELSE settings.cache_until[1] > step

should_cache_step(settings, step) ==
    IF settings.no_cache THEN FALSE
    ELSE IF settings.cache_until = None THEN TRUE
    ELSE settings.cache_until[1] >= step

should_clear_cache(settings, step) ==
    IF settings.clear_all_cache THEN TRUE
    ELSE IF settings.clear_cache # {} THEN step \in settings.clear_cache
    ELSE FALSE

\* str(args) and str(kwargs) are sequences of characters over a small
\* alphabet: the literal " at 0x" (one element), a hex digit and a letter
\* that is no hex digit.
At0x == " at 0x"
HexDigits == {"1"}
Chars == {At0x, "1", "m"}

\* The first position at or after i of s that holds no hex digit.
RECURSIVE HexRunEnd(_, _)
HexRunEnd(s, i) ==
    IF i <= Len(s) /\ s[i] \in HexDigits THEN HexRunEnd(s, i + 1) ELSE i

\* re.sub(r" at 0x[0-9a-fA-F]+", "", s): one pass from the left, every
\* match as long as it can be, the text between matches kept.
RECURSIVE SubFrom(_, _)
SubFrom(s, i) ==
    IF i > Len(s) THEN <<>>
    ELSE IF s[i] = At0x /\ HexRunEnd(s, i + 1) > i + 1
         THEN SubFrom(s, HexRunEnd(s, i + 1))
         ELSE <<s[i]>> \o SubFrom(s, i + 1)

\* (the substitution with a pattern that takes one hex digit only)
RECURSIVE SubOneDigitFrom(_, _)
SubOneDigitFrom(s, i) ==
    IF i > Len(s) THEN <<>>
    ELSE IF s[i] = At0x /\ HexRunEnd(s, i + 1) > i + 1
         THEN SubOneDigitFrom(s, i + 2)
         ELSE <<s[i]>> \o SubOneDigitFrom(s, i + 1)

re_sub_one_digit(s) == SubOneDigitFrom(s, 1)

re_sub(s) == SubFrom(s, 1)

\* (a key without the function name)
KeyWithoutName(func, args, kwargs) ==
    <<":">> \o re_sub(args) \o <<":">> \o re_sub(kwargs)

\* key = f"{func.__name__}:{args_str}:{kwargs_str}"
Key(func, args, kwargs) ==
    <<func, ":">> \o re_sub(args) \o <<":">> \o re_sub(kwargs)

\* The functions decorated with @disk_cache and the step of each.
Wrapped ==
    {"load_previous_replies_to_recruiters", "generate_reply",
     "get_new_recruiter_messages", "initial_research_company",
     "followup_research_company"}

StepOf(func) ==
    CASE func = "load_previous_replies_to_recruiters" -> GET_MESSAGES
      [] func = "generate_reply" -> REPLY
      [] func = "get_new_recruiter_messages" -> GET_MESSAGES
      [] func = "initial_research_company" -> BASIC_RESEARCH
      [] func = "followup_research_company" -> FOLLOWUP_RESEARCH

\* The calls the two programs make, as (function, str(args), str(kwargs)):
\* the receiver self is no part of args.  load_previous_replies_to_recruiters
\* takes no argument; get_new_recruiter_messages is called with max_results
\* only; initial_research_company with the message and model=...; the
\* rendering of the row passed to followup_research_company may embed an
\* address.
WrapperCall(func, args, kwargs) == [func |-> func, args |-> args, kwargs |-> kwargs]

Calls ==
    { WrapperCall("load_previous_replies_to_recruiters", <<>>, <<>>),
      WrapperCall("get_new_recruiter_messages", <<>>, <<"1">>),
      WrapperCall("generate_reply", <<"m">>, <<>>),
      WrapperCall("generate_reply", <<"1">>, <<>>),
      WrapperCall("initial_research_company", <<"m">>, <<"m">>),
      WrapperCall("followup_research_company", <<"m", At0x, "1">>, <<>>),
      WrapperCall("followup_research_company", <<"m", At0x, "1", "1">>, <<>>) }

KeyOf(c) == Key(c.func, c.args, c.kwargs)

Keys == {KeyOf(c) : c \in Calls}

\* What the spec calls the identity of an entry: the stage, the function
\* name and the fingerprint of the arguments.
Triple(c) == <<StepOf(c.func), c.func, re_sub(c.args), re_sub(c.kwargs)>>

\* diskcache.Cache: key -> absent (<<>>) or <<entry>>.  An entry holds the
\* stored Python value and, as history, the triple of the call that set it.
Entry(value, by) == <<[value |-> value, by |-> by]>>

EmptyCache == [k \in Keys |-> <<>>]

cache_get(c, key) == IF c[key] = <<>> THEN None ELSE c[key][1].value

\* (a set that evicts every other entry)
cache_set_alone(c, key, value, by) == [EmptyCache EXCEPT ![key] = Entry(value, by)]

cache_set(c, key, value, by) == [c EXCEPT ![key] = Entry(value, by)]

\* (a delete that removes nothing)
cache_delete_nothing(c, key) == c

cache_delete(c, key) == [c EXCEPT ![key] = <<>>]

cache_clear(c) == EmptyCache

\* The cache directory survives the process: a run starts on what earlier
\* runs stored.  Value 0 stands for a result of an earlier run.
StaleCache ==
    [k \in Keys |-> Entry(Some(0), Triple(CHOOSE c \in Calls : KeyOf(c) = k))]

\* (a wrapper that deletes only when the step is cached)
wrapper_clear_when_cached(c, settings, stage_call, fresh, raises) ==
    LET step == StepOf(stage_call.func)
        use_cache == should_cache_step(settings, step)
        clear_cache == should_clear_cache(settings, step) /\ use_cache
        key == KeyOf(stage_call)
        c1 == IF clear_cache THEN cache_delete(c, key) ELSE c
        got == IF use_cache THEN cache_get(c1, key) ELSE None
        raised == got = None /\ raises
        result == IF got = None THEN fresh ELSE got
        c2 == IF use_cache /\ ~raised
              THEN cache_set(c1, key, result, Triple(stage_call))
              ELSE c1
    IN  [cache |-> c2, result |-> result, invoked |-> (got = None),
         raised |-> raised, deleted |-> clear_cache, read |-> use_cache,
         written |-> (use_cache /\ ~raised)]

\* (a wrapper that runs cache.set in a finally clause)
wrapper_set_on_raise(c, settings, stage_call, fresh, raises) ==
    LET step == StepOf(stage_call.func)
        use_cache == should_cache_step(settings, step)
        clear_cache == should_clear_cache(settings, step)
        key == KeyOf(stage_call)
        c1 == IF clear_cache THEN cache_delete(c, key) ELSE c
        got == IF use_cache THEN cache_get(c1, key) ELSE None
        raised == got = None /\ raises
        result == IF got = None THEN fresh ELSE got
        c2 == IF use_cache
              THEN cache_set(c1, key, result, Triple(stage_call))
              ELSE c1
    IN  [cache |-> c2, result |-> result, invoked |-> (got = None),
         raised |-> raised, deleted |-> clear_cache, read |-> use_cache,
         written |-> use_cache]

\* (a wrapper that tells a miss by the absence of the entry)
wrapper_with_sentinel(c, settings, stage_call, fresh, raises) ==
    LET step == StepOf(stage_call.func)
        use_cache == should_cache_step(settings, step)
        clear_cache == should_clear_cache(settings, step)
        key == KeyOf(stage_call)
        c1 == IF clear_cache THEN cache_delete(c, key) ELSE c
        miss == ~use_cache \/ c1[key] = <<>>
        got == IF use_cache THEN cache_get(c1, key) ELSE None
        raised == miss /\ raises
        result == IF miss THEN fresh ELSE got
        c2 == IF use_cache /\ ~raised
              THEN cache_set(c1, key, result, Triple(stage_call))
              ELSE c1
    IN  [cache |-> c2, result |-> result, invoked |-> miss,
         raised |-> raised, deleted |-> clear_cache, read |-> use_cache,
         written |-> (use_cache /\ ~raised)]

\* disk_cache(step)(func).wrapper(self, *args, **kwargs), where func, if it
\* is invoked, raises (raises is TRUE, and the wrapper passes the exception
\* on from line 93) or returns fresh.
wrapper(c, settings, stage_call, fresh, raises) ==
    LET step == StepOf(stage_call.func)
        use_cache == should_cache_step(settings, step)
        clear_cache == should_clear_cache(settings, step)
        key == KeyOf(stage_call)
        c1 == IF clear_cache THEN cache_delete(c, key) ELSE c
        got == IF use_cache THEN cache_get(c1, key) ELSE None
        raised == got = None /\ raises
        result == IF got = None THEN fresh ELSE got
        c2 == IF use_cache /\ ~raised
              THEN cache_set(c1, key, result, Triple(stage_call))
              ELSE c1
    IN  [cache |-> c2, result |-> result, invoked |-> (got = None),
         raised |-> raised, deleted |-> clear_cache, read |-> use_cache,
         written |-> (use_cache /\ ~raised)]

\* The most recent wrapper call, with what it did; n is its number among
\* the cache operations of the run.
NoWrapperCall ==
    [n |-> 0, call |-> WrapperCall("", <<>>, <<>>), before |-> <<>>, removed |-> FALSE,
     stored |-> FALSE, kept |-> FALSE, fresh |-> None, result |-> None,
     invoked |-> FALSE, raised |-> FALSE, deleted |-> FALSE, read |-> FALSE,
     written |-> FALSE]

\* No two calls are being compared.
NoRender ==
    [func |-> "", a |-> [args |-> <<>>, kwargs |-> <<>>],
     b |-> [args |-> <<>>, kwargs |-> <<>>], keys |-> <<>>]

-----------------------------------------------------------------------------
(* run_in_process: values, exceptions and the order of the finally block *)

\* func.__name__ of the functions run in a child process:
\* levels_searcher.extract_levels, levels_searcher.main, linkedin_searcher.main.
Targets == {"extract_levels", "main"}

DefaultTimeout == 120

\* What a call yields: a value, or an exception of a type with a message
\* (the message is a sequence of pieces of text).
NoOutcome == [kind |-> "none", value |-> None, type |-> "", msg |-> <<>>]
Returns(value) == [kind |-> "return", value |-> value, type |-> "", msg |-> <<>>]
Raises(type, msg) == [kind |-> "raise", value |-> None, type |-> type, msg |-> msg]

ReturnValues == {None, Some("rows")}
ExcTypes == {"ValueError", "KeyError", "TimeoutError"}
ExcArgs == {<<"boom">>}

\* str(e) of an exception built as type(arg): KeyError shows the repr of
\* its argument, the other types the argument itself.
ExcStr(type, arg) ==
    IF type = "KeyError" THEN <<"'">> \o arg \o <<"'">> ELSE arg

\* raise exc_type(exc_msg): the exception the parent raises, with the
\* message str() gives for it.
Reraise(exc_type, exc_msg) == Raises(exc_type, ExcStr(exc_type, exc_msg))

\* f"Function {func.__name__} timed out after {timeout} seconds"
TimeoutMessage(func, timeout) ==
    <<"Function ", func, " timed out after ", ToString(timeout), " seconds">>

EmptyQueue == [buffer |-> <<>>, pipe |-> <<>>]

\* (a finally block that kills at once)
AfterSleepKill(alive) == IF alive THEN "kill" ELSE "done"

\* if process.is_alive(): process.terminate() ...
AfterSleep(alive) == IF alive THEN "terminate" ELSE "done"

\* ... process.join(timeout=1.0); if process.is_alive(): process.kill()
AfterJoin(alive) == IF alive THEN "kill" ELSE "done"

-----------------------------------------------------------------------------
(* The state after construction *)

Daemons == {1, 2}

NoCall == [op |-> "none", id |-> 0, type |-> "", args |-> <<>>, raised |-> FALSE]

\* The args a producer passes: a dict with the key the handlers read, and
\* a dict whose key is the int 1.
ArgsValues ==
    { << <<StrKey("company_name"), "Acme">> >>,
      << <<IntKey("1"), "Acme">> >> }

\* TaskManager.__init__ -> _init_db: with reset_db the table is dropped and
\* created anew; without it CREATE TABLE IF NOT EXISTS leaves the rows.
init_db(rows, reset_db) == IF reset_db THEN <<>> ELSE rows

InitialRepos ==
    { [n \in CompanyNames |-> None],
      [n \in CompanyNames |-> Some(NewCompany(Some("hello")))] }

\* Everything but the store's health: the table is empty, no daemon runs.
Constructed ==
    /\ tasks = <<>>
    /\ born = <<>>
    /\ now = 0
    /\ companies \in InitialRepos
    /\ pc = [d \in Daemons |-> "off"]
    /\ running = [d \in Daemons |-> FALSE]
    /\ cur = [d \in Daemons |-> NoRow]
    /\ exc = [d \in Daemons |-> None]
    /\ claimedBy = [i \in 1..(MaxTasks + 1) |-> {}]
    /\ call = NoCall
    /\ stages = <<>>
    /\ cache = EmptyCache
    /\ cache_settings = DefaultSettings
    /\ program = "off"
    /\ ncalls = 0
    /\ stored = {}
    /\ removed = {}
    /\ kept = {}
    /\ last = NoWrapperCall
    /\ render = NoRender
    /\ child = "none"
    /\ parent = "idle"
    /\ target = ""
    /\ error_queue = EmptyQueue
    /\ result_queue = EmptyQueue
    /\ did = NoOutcome
    /\ parent_result = None
    /\ outcome = NoOutcome
    /\ expired = FALSE
    /\ signals = <<>>

\* The database file is healthy: no statement of the daemon fails.
Init == Constructed /\ outages = 0

\* sqlite3.connect or execute raises (database locked, disk error) in up
\* to MaxOutages store calls of the daemon, and in none after them.
FlakyInit == Constructed /\ outages = MaxOutages

-----------------------------------------------------------------------------
(* The clock and the producers *)

Tick ==
    /\ now < MaxTime
    /\ now' = now + 1
    /\ UNCHANGED <<tasks, born, companies, pc, running, cur, exc, claimedBy, call>>
    /\ UNCHANGED <<cacheVars, execVars, render, stages, outages>>

CreateTask(task_type, args) ==
    /\ Len(tasks) < MaxTasks
    /\ tasks' = create_task(tasks, task_type, args, now)
    /\ born' = Append(born, now)
    /\ call' = [op |-> "create_task", id |-> FreshId(tasks),
                type |-> task_type, args |-> args, raised |-> FALSE]
    /\ UNCHANGED <<now, companies, pc, running, cur, exc, claimedBy>>
    /\ UNCHANGED <<cacheVars, execVars, render, stages, outages>>

\* A client that calls update_task directly.
UpdateTaskCall(task_id, status, result, error) ==
    /\ tasks' = update_task(tasks, task_id, status, result, error, now)
    /\ call' = [op |-> "update_task", id |-> task_id, type |-> "",
                args |-> <<>>, raised |-> update_task_raises(tasks, task_id)]
    /\ UNCHANGED <<born, now, companies, pc, running, cur, exc, claimedBy>>
    /\ UNCHANGED <<cacheVars, execVars, render, stages, outages>>

\* A client that calls get_task.
GetTaskCall(task_id) ==
    /\ call' = [op |-> "get_task", id |-> task_id, type |-> "", args |-> <<>>,
                raised |-> FALSE, returned |-> get_task(tasks, task_id)]
    /\ UNCHANGED <<tasks, born, now, companies, pc, running, cur, exc, claimedBy>>
    /\ UNCHANGED <<cacheVars, execVars, render, stages, outages>>

\* A process constructs a TaskManager on the database file: TaskManager()
\* as task_manager() does, or TaskManager(reset_db=True) as
\* python tasks.py --reset-db does.
Construct(reset_db) ==
    /\ tasks' = init_db(tasks, reset_db)
    /\ born' = IF reset_db THEN <<>> ELSE born
    /\ UNCHANGED <<now, companies, pc, running, cur, exc, claimedBy, call>>
    /\ UNCHANGED <<cacheVars, execVars, render, stages, outages>>

-----------------------------------------------------------------------------
(* research_daemon.py: ResearchDaemon and TaskStatusContext *)

\* start(): self.running = True, install the signal handlers, enter the loop
Start(d) ==
    /\ pc[d] = "off"
    /\ running' = [running EXCEPT ![d] = TRUE]
    /\ pc' = [pc EXCEPT ![d] = "loop"]
    /\ UNCHANGED <<tasks, born, now, companies, cur, exc, claimedBy, call>>
    /\ UNCHANGED <<cacheVars, execVars, render, stages, outages>>

\* stop(): the handler of SIGINT and SIGTERM
Stop(d) ==
    /\ pc[d] \notin {"off", "stopped"}
    /\ running[d]
    /\ running' = [running EXCEPT ![d] = FALSE]
    /\ UNCHANGED <<tasks, born, now, companies, pc, cur, exc, claimedBy, call>>
    /\ UNCHANGED <<cacheVars, execVars, render, stages, outages>>

\* while self.running fails: start() returns
LoopExit(d) ==
    /\ pc[d] = "loop"
    /\ ~running[d]
    /\ pc' = [pc EXCEPT ![d] = "stopped"]
    /\ UNCHANGED <<tasks, born, now, companies, running, cur, exc, claimedBy, call>>
    /\ UNCHANGED <<cacheVars, execVars, render, stages, outages>>

\* (a loop without the except clause: the exception ends start())
AfterTaskUncaught(e) == IF e = None THEN "sleep" ELSE "stopped"

\* Where start() goes after process_next_task: an exception is caught by
\* except Exception (log, back off), a normal return goes to time.sleep(1).
AfterTask(e) == IF e = None THEN "sleep" ELSE "backoff"

\* while self.running holds: the body of the loop is entered.  The signal
\* handler may run between this test and any later statement.
WhileRunning(d) ==
    /\ pc[d] = "loop"
    /\ running[d]
    /\ pc' = [pc EXCEPT ![d] = "poll"]
    /\ UNCHANGED <<tasks, born, now, companies, running, cur, exc, claimedBy, call>>
    /\ UNCHANGED <<cacheVars, execVars, render, stages, outages>>

\* Whether the statement a store call runs fails: sqlite3.connect and
\* execute raise sqlite3.Error, and the call passes it on.
Down == IF outages > 0 THEN BOOLEAN ELSE {FALSE}
StoreErrorText == <<"database is locked">>
StoreRaises == [kind |-> "raise", id |-> 0, type |-> "", args |-> <<>>]

\* process_next_task up to the with statement: get_next_pending_task
\* raises (to the except of start), returns None, or returns a row.
Poll(d) ==
    /\ pc[d] = "poll"
    /\ \E down \in Down :
       LET row == IF down THEN StoreRaises ELSE get_next_pending_task(tasks)
       IN  /\ cur' = [cur EXCEPT ![d] = IF row.kind = "row" THEN row ELSE NoRow]
           /\ pc' = [pc EXCEPT ![d] =
                        CASE row.kind = "row"   -> "enter"
                          [] row.kind = "none"  -> "sleep"
                          [] row.kind = "raise" -> AfterTask(Some(StoreErrorText))]
           /\ call' = [op |-> "get_next_pending_task", id |-> row.id,
                       type |-> "", args |-> <<>>,
                       raised |-> (row.kind = "raise")]
           /\ outages' = IF down THEN outages - 1 ELSE outages
    /\ UNCHANGED <<tasks, born, now, companies, running, exc, claimedBy>>
    /\ UNCHANGED <<cacheVars, execVars, render, stages>>

\* TaskStatusContext.__enter__; when update_task raises, the with
\* statement is left before its body and __exit__ does not run.
Enter(d) ==
    /\ pc[d] = "enter"
    /\ \E down \in Down :
       IF down
       THEN /\ call' = [op |-> "update_task", id |-> cur[d].id, type |-> "",
                        args |-> <<>>, raised |-> TRUE]
            /\ pc' = [pc EXCEPT ![d] = AfterTask(Some(StoreErrorText))]
            /\ cur' = [cur EXCEPT ![d] = NoRow]
            /\ outages' = outages - 1
            /\ UNCHANGED <<tasks, claimedBy>>
       ELSE /\ tasks' = update_task(tasks, cur[d].id, RUNNING, None, "", now)
            /\ call' = [op |-> "update_task", id |-> cur[d].id, type |-> "",
                        args |-> <<>>, raised |-> update_task_raises(tasks, cur[d].id)]
            /\ pc' = [pc EXCEPT ![d] = "handler"]
            /\ claimedBy' = [claimedBy EXCEPT ![cur[d].id] = @ \cup {d}]
            /\ UNCHANGED <<cur, outages>>
    /\ UNCHANGED <<born, now, companies, running, exc>>
    /\ UNCHANGED <<cacheVars, execVars, render, stages>>

\* The body of the with statement: the handler of the task's type runs.
Handle(d, out) ==
    /\ companies' = out.repo
    /\ exc' = [exc EXCEPT ![d] = IF out.raised THEN Some(out.msg) ELSE None]
    /\ pc' = [pc EXCEPT ![d] = "exit"]
    /\ UNCHANGED <<tasks, born, now, running, cur, claimedBy, call>>
    /\ UNCHANGED <<cacheVars, execVars, render, stages, outages>>

DoResearch(d) ==
    /\ pc[d] = "handler"
    /\ cur[d].type = COMPANY_RESEARCH
    /\ \E researchOk \in BOOLEAN :
          Handle(d, do_research(cur[d].args, companies, researchOk))

DoGenerateReply(d) ==
    /\ pc[d] = "handler"
    /\ cur[d].type = GENERATE_REPLY
    /\ \E replyOk \in BOOLEAN :
          Handle(d, do_generate_reply(cur[d].args, companies, replyOk))

\* The status and error that __exit__ writes for the exception it is given;
\* error is update_task's default "" when there is none, else str(exc_value).
\* (an __exit__ that leaves the status as __enter__ wrote it)
ExitStatusStays(e) == RUNNING
\* (an __exit__ that records every task as completed)
ExitStatusCompleted(e) == COMPLETED
ExitStatus(e) == IF e = None THEN COMPLETED ELSE FAILED
ExitError(e) == IF e = None THEN "" ELSE e[1]

\* TaskStatusContext.__exit__; it returns None, so an exception of the body
\* leaves process_next_task.  When its update_task raises, that exception
\* leaves process_next_task instead and the row stays as it was.
ExitContext(d) ==
    /\ pc[d] = "exit"
    /\ \E down \in Down :
       IF down
       THEN /\ call' = [op |-> "update_task", id |-> cur[d].id, type |-> "",
                        args |-> <<>>, raised |-> TRUE]
            /\ pc' = [pc EXCEPT ![d] = AfterTask(Some(StoreErrorText))]
            /\ outages' = outages - 1
            /\ UNCHANGED tasks
       ELSE /\ tasks' = update_task(tasks, cur[d].id, ExitStatus(exc[d]), None,
                                    ExitError(exc[d]), now)
            /\ call' = [op |-> "update_task", id |-> cur[d].id, type |-> "",
                        args |-> <<>>, raised |-> update_task_raises(tasks, cur[d].id)]
            /\ pc' = [pc EXCEPT ![d] = AfterTask(exc[d])]
            /\ UNCHANGED outages
    /\ exc' = [exc EXCEPT ![d] = None]
    /\ cur' = [cur EXCEPT ![d] = NoRow]
    /\ UNCHANGED <<born, now, companies, running, claimedBy>>
    /\ UNCHANGED <<cacheVars, execVars, render, stages>>

\* time.sleep(1), the polling interval
PollingInterval(d) ==
    /\ pc[d] = "sleep"
    /\ pc' = [pc EXCEPT ![d] = "loop"]
    /\ UNCHANGED <<tasks, born, now, companies, running, cur, exc, claimedBy, call>>
    /\ UNCHANGED <<cacheVars, execVars, render, stages, outages>>

\* except Exception: log, time.sleep(5)
BackOff(d) ==
    /\ pc[d] = "backoff"
    /\ pc' = [pc EXCEPT ![d] = "loop"]
    /\ UNCHANGED <<tasks, born, now, companies, running, cur, exc, claimedBy, call>>
    /\ UNCHANGED <<cacheVars, execVars, render, stages, outages>>

\* The daemon process dies where it stands (kill -9, power loss): what it
\* held in memory is gone, the database file is as it was.  The same
\* program can be started again.
Crash(d) ==
    /\ pc[d] \notin {"off", "stopped"}
    /\ pc' = [pc EXCEPT ![d] = "off"]
    /\ running' = [running EXCEPT ![d] = FALSE]
    /\ cur' = [cur EXCEPT ![d] = NoRow]
    /\ exc' = [exc EXCEPT ![d] = None]
    /\ UNCHANGED <<tasks, born, now, companies, claimedBy, call>>
    /\ UNCHANGED <<cacheVars, execVars, render, stages, outages>>

\* One step of the loop of start() that is not its end.
DaemonRun(d) ==
    \/ WhileRunning(d)
    \/ Poll(d)
    \/ Enter(d)
    \/ DoResearch(d)
    \/ DoGenerateReply(d)
    \/ ExitContext(d)
    \/ PollingInterval(d)
    \/ BackOff(d)

Produce == \E task_type \in TaskType, args \in ArgsValues : CreateTask(task_type, args)

-----------------------------------------------------------------------------
(* Specifications *)

\* One daemon, producers that use the TaskType enum, and the shutdown signal.
Next ==
    \/ Tick
    \/ Produce
    \/ Start(1)
    \/ DaemonRun(1)
    \/ Stop(1)
    \/ LoopExit(1)

Spec == Init /\ [][Next]_vars

\* One daemon and a client that also calls update_task(task_id, status)
\* directly, result and error left at their defaults.
ClientUpdate ==
    \E task_id \in 1..(MaxTasks + 1), status \in TaskStatus :
          UpdateTaskCall(task_id, status, None, "")

NextApi ==
    \/ Produce
    \/ ClientUpdate
    \/ Start(1)
    \/ DaemonRun(1)

SpecApi == Init /\ [][NextApi]_vars

\* Two daemon processes on the same database.  Each process has its own
\* TaskManager and so its own multiprocessing.Lock; what the two share is
\* the database, where every statement is one transaction.
NextTwo ==
    \/ Tick
    \/ Produce
    \/ \E d \in Daemons : Start(d)
    \/ \E d \in Daemons : DaemonRun(d)

SpecTwo == Init /\ [][NextTwo]_vars

\* One daemon that is started and never signalled.  The loop of start()
\* runs on: none of its steps blocks for ever (the handlers terminate).
\* The clock stands still here: every row carries the same reading, and
\* the rows are claimed in the order of their insertion.
NextRun ==
    \/ Produce
    \/ Start(1)
    \/ DaemonRun(1)

Scheduled == WF_vars(Start(1) \/ DaemonRun(1))

FairSpec == Init /\ [][NextRun]_vars /\ Scheduled

\* The same daemon, with a producer whose type object is no TaskType.
ProduceForeign == \E args \in ArgsValues : CreateTask(ForeignType, args)

NextForeign == NextRun \/ ProduceForeign

ForeignSpec == Init /\ [][NextForeign]_vars /\ Scheduled

\* The daemon's store calls fail a bounded number of times.
FlakySpec == FlakyInit /\ [][NextRun]_vars /\ Scheduled

\* The daemon process may die at any point and be started again.
NextCrash == NextRun \/ Crash(1)

CrashSpec == Init /\ [][NextCrash]_vars

\* The same, and processes that construct a TaskManager on the database.
NextConstruct == NextCrash \/ \E reset_db \in BOOLEAN : Construct(reset_db)

ConstructSpec == Init /\ [][NextConstruct]_vars

\* The daemon and a client that reads tasks by id.
ClientGet == \E task_id \in 1..(MaxTasks + 1) : GetTaskCall(task_id)

NextRead == NextRun \/ ClientGet

ReadSpec == Init /\ [][NextRead]_vars

-----------------------------------------------------------------------------
(* The step cache: the two programs and the wrapped stages *)

\* Entries stored by earlier runs are in the cache directory before a run.
EarlierRuns ==
    /\ program = "off"
    /\ ncalls = 0
    /\ cache = EmptyCache
    /\ cache' = StaleCache
    /\ UNCHANGED <<cache_settings, program, ncalls, stored, removed, kept, last>>
    /\ UNCHANGED <<taskVars, execVars, render>>

\* python libjobsearch.py: clears the cache if asked to, builds the
\* settings from the command line.
MainCli(settings) ==
    /\ program = "off"
    /\ program' = "cli"
    /\ cache' = IF settings.clear_all_cache THEN cache_clear(cache) ELSE cache
    /\ kept' = IF settings.clear_all_cache THEN {} ELSE kept
    /\ cache_settings' = settings
    /\ last' = NoWrapperCall
    /\ UNCHANGED <<ncalls, stored, removed>>
    /\ UNCHANGED <<taskVars, execVars, render>>

\* python research_daemon.py: builds the settings from the command line.
MainDaemon(settings) ==
    /\ program = "off"
    /\ program' = "daemon"
    /\ cache_settings' = settings
    /\ last' = NoWrapperCall
    /\ UNCHANGED <<cache, ncalls, stored, removed, kept>>
    /\ UNCHANGED <<taskVars, execVars, render>>

\* The wrapped calls a program can make next, n being the number of the
\* last one it made (0: none yet).  Both programs construct a JobSearch,
\* whose EmailResponder calls load_previous_replies_to_recruiters in
\* __init__ and nowhere else; get_new_recruiter_messages is called by
\* JobSearch.main only, which the daemon does not run.
CallsOf(prog, n) ==
    IF n = 0
    THEN {c \in Calls : c.func = "load_previous_replies_to_recruiters"}
    ELSE {c \in Calls :
            /\ c.func # "load_previous_replies_to_recruiters"
            /\ prog = "daemon" => c.func # "get_new_recruiter_messages"}

\* What the decorated function returns when it runs for the n-th cache
\* operation: None, or a value no earlier invocation returned.
FreshValues(n) == {None, Some(n)}

\* One call of a wrapped stage.  An exception in the call made by
\* EmailResponder.__init__ leaves __main__: the program is over.
Stage(c, fresh, raises) ==
    /\ program \in {"cli", "daemon"}
    /\ ncalls < MaxCalls
    /\ c \in CallsOf(program, last.n)
    /\ raises => fresh = None
    /\ LET w == wrapper(cache, cache_settings, c, fresh, raises)
           key == KeyOf(c)
       IN  /\ cache' = w.cache
           /\ last' = [n |-> ncalls + 1, call |-> c, before |-> cache[key],
                       removed |-> key \in removed, stored |-> key \in stored,
                       kept |-> key \in kept,
                       fresh |-> fresh, result |-> w.result,
                       invoked |-> w.invoked, raised |-> w.raised,
                       deleted |-> w.deleted,
                       read |-> w.read, written |-> w.written]
           /\ stored' = IF w.written THEN stored \cup {key} ELSE stored
           /\ removed' = IF w.written THEN removed \ {key}
                         ELSE IF w.deleted /\ cache[key] # <<>>
                              THEN removed \cup {key}
                              ELSE removed
           /\ kept' = IF w.deleted THEN kept \ {key} ELSE kept
           /\ program' = IF w.raised /\ last.n = 0 THEN "off" ELSE program
    /\ ncalls' = ncalls + 1
    /\ UNCHANGED cache_settings
    /\ UNCHANGED <<taskVars, execVars, render>>

\* cache.delete(key) called directly on an entry that is present.
Delete(key) ==
    /\ program \in {"cli", "daemon"}
    /\ 0 < last.n
    /\ ncalls < MaxCalls
    /\ cache[key] # <<>>
    /\ cache' = cache_delete(cache, key)
    /\ removed' = removed \cup {key}
    /\ kept' = kept \ {key}
    /\ ncalls' = ncalls + 1
    /\ UNCHANGED <<cache_settings, program, stored, last>>
    /\ UNCHANGED <<taskVars, execVars, render>>

\* The process of the program dies (killed, or an exception leaves
\* __main__); the cache directory stays on disk as it is.  It counts as
\* an operation of the run.
ProcessDies ==
    /\ program \in {"cli", "daemon"}
    /\ ncalls < MaxCalls
    /\ program' = "off"
    /\ kept' = kept \cup (stored \ removed)
    /\ stored' = {}
    /\ ncalls' = ncalls + 1
    /\ UNCHANGED <<cache, cache_settings, removed, last>>
    /\ UNCHANGED <<taskVars, execVars, render>>

CacheNext ==
    \/ EarlierRuns
    \/ \E settings \in CacheSettings : MainCli(settings)
    \/ \E settings \in CacheSettings : MainDaemon(settings)
    \/ \E c \in Calls : \E fresh \in FreshValues(ncalls + 1), raises \in BOOLEAN :
          Stage(c, fresh, raises)
    \/ \E key \in Keys : Delete(key)

\* The cache and the executor are looked at with the task store and the
\* company repository empty and the daemon loop not started.
IdleInit == Init /\ companies = [n \in CompanyNames |-> None]

CacheSpec == IdleInit /\ [][CacheNext]_vars

\* The same, with processes that die and programs that are run again.
NextRestart == CacheNext \/ ProcessDies

RestartSpec == IdleInit /\ [][NextRestart]_vars

-----------------------------------------------------------------------------
(* The keys of two calls of one wrapped stage *)

\* All strings of at most n characters.
Renderings(n) == UNION {[1..k -> Chars] : k \in 0..n}

\* str(kwargs) of a call: no keyword argument, one, or one whose
\* rendering embeds an address.
KwargsRenderings == {<<>>, <<"m">>, <<"m", At0x, "1">>}

\* Two calls of func, given by str(args) and str(kwargs) of each, and the
\* key the wrapper computes for each.
TwoCalls(func, a, b) ==
    /\ render.func = ""
    /\ render' = [func |-> func, a |-> a, b |-> b,
                  keys |-> <<Key(func, a.args, a.kwargs),
                             Key(func, b.args, b.kwargs)>>]
    /\ UNCHANGED <<taskVars, cacheVars, execVars>>

RenderNext ==
    /\ render.func = ""
    /\ \E func \in Wrapped :
       \E args_a \in Renderings(MaxLen), args_b \in Renderings(MaxLen) :
       \E kwargs_a \in KwargsRenderings, kwargs_b \in KwargsRenderings :
           TwoCalls(func, [args |-> args_a, kwargs |-> kwargs_a],
                          [args |-> args_b, kwargs |-> kwargs_b])

RenderSpec == IdleInit /\ [][RenderNext]_vars

-----------------------------------------------------------------------------
(* run_in_process: the parent, the child and the two queues between them *)

\* One call of run_in_process(func, ...) with the default timeout:
\* process.start() has returned, the parent is about to wait.
RunInProcess(func) ==
    /\ parent = "idle"
    /\ parent' = "get_result"
    /\ child' = "running"
    /\ target' = func
    /\ UNCHANGED <<error_queue, result_queue, did, parent_result, outcome, expired, signals>>
    /\ UNCHANGED <<taskVars, cacheVars, render>>

Alive == child \in {"running", "raised", "finished"}

\* _process_wrapper: func returned value.
ChildReturn(value) ==
    /\ child = "running"
    /\ result_queue' = [result_queue EXCEPT !.buffer = Append(@, value)]
    /\ did' = Returns(value)
    /\ child' = "finished"
    /\ UNCHANGED <<error_queue, parent, target, parent_result, outcome, expired, signals>>
    /\ UNCHANGED <<taskVars, cacheVars, render>>

\* _process_wrapper: func raised type(arg); error_queue.put((type(e), str(e))).
ChildRaise(type, arg) ==
    /\ child = "running"
    /\ error_queue' = [error_queue EXCEPT
                         !.buffer = Append(@, [type |-> type, msg |-> ExcStr(type, arg)])]
    /\ did' = Raises(type, ExcStr(type, arg))
    /\ child' = "raised"
    /\ UNCHANGED <<result_queue, parent, target, parent_result, outcome, expired, signals>>
    /\ UNCHANGED <<taskVars, cacheVars, render>>

\* _process_wrapper: result_queue.put(None) in the except branch.
ChildSignalCompletion ==
    /\ child = "raised"
    /\ result_queue' = [result_queue EXCEPT !.buffer = Append(@, None)]
    /\ child' = "finished"
    /\ UNCHANGED <<error_queue, parent, target, did, parent_result, outcome, expired, signals>>
    /\ UNCHANGED <<taskVars, cacheVars, render>>

\* The feeder thread of a multiprocessing.Queue writes what put() buffered
\* to the pipe; each queue has its own thread.
FeedError ==
    /\ Alive
    /\ error_queue.buffer # <<>>
    /\ error_queue' = [buffer |-> Tail(error_queue.buffer),
                       pipe |-> Append(error_queue.pipe, Head(error_queue.buffer))]
    /\ UNCHANGED <<result_queue, child, parent, target, did, parent_result, outcome, expired, signals>>
    /\ UNCHANGED <<taskVars, cacheVars, render>>

FeedResult ==
    /\ Alive
    /\ result_queue.buffer # <<>>
    /\ result_queue' = [buffer |-> Tail(result_queue.buffer),
                        pipe |-> Append(result_queue.pipe, Head(result_queue.buffer))]
    /\ UNCHANGED <<error_queue, child, parent, target, did, parent_result, outcome, expired, signals>>
    /\ UNCHANGED <<taskVars, cacheVars, render>>

\* The child process ends once _process_wrapper has returned and the
\* feeder threads have flushed.
ChildExit ==
    /\ child = "finished"
    /\ error_queue.buffer = <<>>
    /\ result_queue.buffer = <<>>
    /\ child' = "exited"
    /\ UNCHANGED <<error_queue, result_queue, parent, target, did, parent_result, outcome, expired, signals>>
    /\ UNCHANGED <<taskVars, cacheVars, render>>

\* A signal sent to the child ends it, sooner or later; SIGTERM may be
\* handled or blocked, and then only SIGKILL ends the child.
ChildDiesOfSignal ==
    /\ Alive
    /\ signals # <<>>
    /\ child' = "exited"
    /\ UNCHANGED <<error_queue, result_queue, parent, target, did, parent_result, outcome, expired, signals>>
    /\ UNCHANGED <<taskVars, cacheVars, render>>

\* result_queue.get(timeout=timeout) returns an item.
GetResult ==
    /\ parent = "get_result"
    /\ result_queue.pipe # <<>>
    /\ parent_result' = Head(result_queue.pipe)
    /\ result_queue' = [result_queue EXCEPT !.pipe = Tail(@)]
    /\ parent' = "get_error"
    /\ UNCHANGED <<error_queue, child, target, did, outcome, expired, signals>>
    /\ UNCHANGED <<taskVars, cacheVars, render>>

\* result_queue.get(timeout=timeout) raises queue.Empty.
Expire ==
    /\ parent = "get_result"
    /\ result_queue.pipe = <<>>
    /\ outcome' = Raises("TimeoutError", TimeoutMessage(target, DefaultTimeout))
    /\ expired' = TRUE
    /\ parent' = "sleep"
    /\ UNCHANGED <<error_queue, result_queue, child, target, did, parent_result, signals>>
    /\ UNCHANGED <<taskVars, cacheVars, render>>

\* error_queue.get_nowait(), then raise exc_type(exc_msg) or return parent_result.
GetErrorNowait ==
    /\ parent = "get_error"
    /\ IF error_queue.pipe # <<>>
       THEN /\ outcome' = Reraise(Head(error_queue.pipe).type, Head(error_queue.pipe).msg)
            /\ error_queue' = [error_queue EXCEPT !.pipe = Tail(@)]
       ELSE /\ outcome' = Returns(parent_result)
            /\ UNCHANGED error_queue
    /\ parent' = "sleep"
    /\ UNCHANGED <<result_queue, child, target, did, parent_result, expired, signals>>
    /\ UNCHANGED <<taskVars, cacheVars, render>>

\* process.is_alive() and process.join() wait for the child's exit status:
\* a child that has exited is reaped by them, one that has not stays as it is.
Waited(state) == IF state = "exited" THEN "reaped" ELSE state

\* finally: time.sleep(0.5), then process.is_alive().
Sleep ==
    /\ parent = "sleep"
    /\ parent' = AfterSleep(Alive)
    /\ child' = Waited(child)
    /\ UNCHANGED <<error_queue, result_queue, target, did, parent_result, outcome, expired, signals>>
    /\ UNCHANGED <<taskVars, cacheVars, render>>

\* process.terminate()
Terminate ==
    /\ parent = "terminate"
    /\ signals' = Append(signals, "SIGTERM")
    /\ parent' = "join"
    /\ UNCHANGED <<error_queue, result_queue, child, target, did, parent_result, outcome, expired>>
    /\ UNCHANGED <<taskVars, cacheVars, render>>

\* process.join(timeout=1.0), then process.is_alive().
Join ==
    /\ parent = "join"
    /\ parent' = AfterJoin(Alive)
    /\ child' = Waited(child)
    /\ UNCHANGED <<error_queue, result_queue, target, did, parent_result, outcome, expired, signals>>
    /\ UNCHANGED <<taskVars, cacheVars, render>>

\* process.kill(); after it control returns to the caller, with no
\* is_alive() or join() in between.
Kill ==
    /\ parent = "kill"
    /\ signals' = Append(signals, "SIGKILL")
    /\ parent' = "done"
    /\ UNCHANGED <<error_queue, result_queue, child, target, did, parent_result, outcome, expired>>
    /\ UNCHANGED <<taskVars, cacheVars, render>>

ChildStep ==
    \/ \E value \in ReturnValues : ChildReturn(value)
    \/ \E type \in ExcTypes, arg \in ExcArgs : ChildRaise(type, arg)
    \/ ChildSignalCompletion
    \/ FeedError
    \/ FeedResult
    \/ ChildExit
    \/ ChildDiesOfSignal

ParentStep ==
    \/ GetResult
    \/ Expire
    \/ GetErrorNowait
    \/ Sleep
    \/ Terminate
    \/ Join
    \/ Kill

ExecNext ==
    \/ \E func \in Targets : RunInProcess(func)
    \/ ChildStep
    \/ ParentStep

ExecSpec == IdleInit /\ [][ExecNext]_vars

-----------------------------------------------------------------------------
(* The research handler in steps: do_research, JobSearch.research_company,
   its two cached stages and the child processes they run *)

\* str(e) of an exception whose message is given in pieces.
RECURSIVE Cat(_)
Cat(msg) == IF msg = <<>> THEN "" ELSE Head(msg) \o Cat(Tail(msg))

\* The wrapped calls research_company makes; content and the row are
\* rendered as in Calls.
InitialCall == WrapperCall("initial_research_company", <<"m">>, <<"m">>)
FollowupCall == WrapperCall("followup_research_company", <<"m", At0x, "1">>, <<>>)

\* What a stage did, for the history.
Did(stage_call, what) == [stage |-> stage_call.func, what |-> what]

\* (a caller that goes on after a stage has raised)
AfterStageOn(raised, next) == next

\* Where the handler goes after a stage: an exception leaves
\* research_company and do_research, a value goes to the next statement.
AfterStage(raised, next) == IF raised THEN "exit" ELSE next

\* The statement of the handler that follows a stage: is_good_fit and the
\* follow-up after the initial research, company_repo.create after the
\* follow-up.
Following(stage_call) == IF stage_call = InitialCall THEN "fit" ELSE "create"

\* process.start() of a new run_in_process(func): new queues, new child.
StartRun(func) ==
    /\ parent' = "get_result"
    /\ child' = "running"
    /\ target' = func
    /\ error_queue' = EmptyQueue
    /\ result_queue' = EmptyQueue
    /\ did' = NoOutcome
    /\ parent_result' = None
    /\ outcome' = NoOutcome
    /\ expired' = FALSE
    /\ signals' = <<>>

\* run_in_process has returned or raised: its queues and its process
\* object are gone with its frame.
EndRun ==
    /\ parent' = "idle"
    /\ child' = "none"
    /\ target' = ""
    /\ error_queue' = EmptyQueue
    /\ result_queue' = EmptyQueue
    /\ did' = NoOutcome
    /\ parent_result' = None
    /\ outcome' = NoOutcome
    /\ expired' = FALSE
    /\ signals' = <<>>

\* What no step of the handler touches.
HandlerFrame ==
    /\ UNCHANGED <<tasks, born, now, running, claimedBy, call, outages>>
    /\ UNCHANGED <<cache_settings, program, ncalls, stored, removed, kept, last, render>>

\* The wrapper of stage_call ends with the exception func raised.
StageRaises(d, stage_call, text) ==
    /\ cache' = wrapper(cache, cache_settings, stage_call, None, TRUE).cache
    /\ exc' = [exc EXCEPT ![d] = Some(text)]
    /\ pc' = [pc EXCEPT ![d] = AfterStage(TRUE, Following(stage_call))]
    /\ stages' = Append(stages, Did(stage_call, "raise"))

\* The wrapper of stage_call ends with the value func returned.
StageReturns(d, stage_call, value) ==
    /\ cache' = wrapper(cache, cache_settings, stage_call, value, FALSE).cache
    /\ pc' = [pc EXCEPT ![d] = AfterStage(FALSE, Following(stage_call))]
    /\ stages' = Append(stages, Did(stage_call, "return"))
    /\ UNCHANGED exc

\* do_research up to the call of research_company: the KeyError of
\* args["company_name"], or the existing record is read and deleted.
BeginResearch(d) ==
    /\ pc[d] = "handler"
    /\ cur[d].type = COMPANY_RESEARCH
    /\ IF ~DictHas(cur[d].args, CompanyNameKey)
       THEN /\ exc' = [exc EXCEPT ![d] = Some(KeyErrorText)]
            /\ pc' = [pc EXCEPT ![d] = "exit"]
            /\ UNCHANGED <<companies, cur>>
       ELSE LET company_name == DictGet(cur[d].args, CompanyNameKey)
                existing == companies[company_name]
                \* the row in hand, and the local initial_message
            IN  /\ cur' = [cur EXCEPT ![d] =
                             [kind |-> @.kind, id |-> @.id, type |-> @.type,
                              args |-> @.args,
                              initial_message |-> IF existing # None
                                                  THEN existing[1].initial_message
                                                  ELSE None]]
                /\ companies' = [companies EXCEPT ![company_name] = None]
                /\ pc' = [pc EXCEPT ![d] = "initial"]
                /\ UNCHANGED exc
    /\ stages' = <<>>
    /\ HandlerFrame
    /\ UNCHANGED <<cache, execVars>>

\* initial_research_company is called: the wrapper deletes, reads, and
\* either returns what it read or calls the function.
InitialLookup(d) ==
    /\ pc[d] = "initial"
    /\ LET w == wrapper(cache, cache_settings, InitialCall, None, TRUE)
       IN  IF w.invoked
           THEN /\ cache' = IF w.deleted
                               THEN cache_delete(cache, KeyOf(InitialCall))
                               ELSE cache
                /\ pc' = [pc EXCEPT ![d] = "researcher"]
                /\ stages' = Append(stages, Did(InitialCall, "call"))
                /\ UNCHANGED exc
           ELSE /\ cache' = wrapper(cache, cache_settings, InitialCall, None, FALSE).cache
                /\ pc' = [pc EXCEPT ![d] = AfterStage(FALSE, Following(InitialCall))]
                /\ stages' = stages \o <<Did(InitialCall, "call"),
                                         Did(InitialCall, "return")>>
                /\ UNCHANGED exc
    /\ UNCHANGED <<companies, cur>>
    /\ HandlerFrame
    /\ UNCHANGED execVars

\* company_researcher.main returns or raises; after it
\* run_in_process(levels_searcher.extract_levels, row.name) starts.
CompanyResearcher(d) ==
    /\ pc[d] = "researcher"
    /\ \E ok \in BOOLEAN :
          IF ok
          THEN /\ StartRun("extract_levels")
               /\ pc' = [pc EXCEPT ![d] = "levels"]
               /\ UNCHANGED <<cache, exc, stages>>
          ELSE /\ StageRaises(d, InitialCall, ExternalErrorText)
               /\ UNCHANGED execVars
    /\ UNCHANGED <<companies, cur>>
    /\ HandlerFrame

\* run_in_process(extract_levels) has ended; with a value,
\* run_in_process(levels_searcher.main, company_name=row.name) starts.
LevelsDone(d) ==
    /\ pc[d] = "levels"
    /\ parent = "done"
    /\ IF outcome.kind = "raise"
       THEN /\ StageRaises(d, InitialCall, Cat(outcome.msg))
            /\ EndRun
       ELSE /\ StartRun("main")
            /\ pc' = [pc EXCEPT ![d] = "salary"]
            /\ UNCHANGED <<cache, exc, stages>>
    /\ UNCHANGED <<companies, cur>>
    /\ HandlerFrame

\* run_in_process(levels_searcher.main) has ended; with a value the
\* function returns the row and the wrapper sets it.
SalaryDone(d) ==
    /\ pc[d] = "salary"
    /\ parent = "done"
    /\ IF outcome.kind = "raise"
       THEN StageRaises(d, InitialCall, Cat(outcome.msg))
       ELSE StageReturns(d, InitialCall, Some(cur[d].id))
    /\ EndRun
    /\ UNCHANGED <<companies, cur>>
    /\ HandlerFrame

\* is_good_fit returns True; followup_research_company is called: the
\* wrapper deletes, reads, and either returns what it read or calls the
\* function, which starts run_in_process(linkedin_searcher.main, name).
FollowupLookup(d) ==
    /\ pc[d] = "fit"
    /\ LET w == wrapper(cache, cache_settings, FollowupCall, None, TRUE)
       IN  IF w.invoked
           THEN /\ cache' = IF w.deleted
                               THEN cache_delete(cache, KeyOf(FollowupCall))
                               ELSE cache
                /\ StartRun("main")
                /\ pc' = [pc EXCEPT ![d] = "linkedin"]
                /\ stages' = Append(stages, Did(FollowupCall, "call"))
                /\ UNCHANGED exc
           ELSE /\ cache' = wrapper(cache, cache_settings, FollowupCall, None, FALSE).cache
                /\ pc' = [pc EXCEPT ![d] = AfterStage(FALSE, Following(FollowupCall))]
                /\ stages' = stages \o <<Did(FollowupCall, "call"),
                                         Did(FollowupCall, "return")>>
                /\ UNCHANGED exc
                /\ UNCHANGED execVars
    /\ UNCHANGED <<companies, cur>>
    /\ HandlerFrame

\* run_in_process(linkedin_searcher.main) has ended.
LinkedinDone(d) ==
    /\ pc[d] = "linkedin"
    /\ parent = "done"
    /\ IF outcome.kind = "raise"
       THEN StageRaises(d, FollowupCall, Cat(outcome.msg))
       ELSE StageReturns(d, FollowupCall, Some(cur[d].id))
    /\ EndRun
    /\ UNCHANGED <<companies, cur>>
    /\ HandlerFrame

\* research_company has returned: company_repo.create(company).
CreateCompany(d) ==
    /\ pc[d] = "create"
    /\ companies' = [companies EXCEPT ![DictGet(cur[d].args, CompanyNameKey)] =
                        Some(NewCompany(cur[d].initial_message))]
    /\ exc' = [exc EXCEPT ![d] = None]
    /\ pc' = [pc EXCEPT ![d] = "exit"]
    /\ UNCHANGED <<cur, stages>>
    /\ HandlerFrame
    /\ UNCHANGED <<cache, execVars>>

\* The loop of start() with the research handler in steps.
PipelineRun(d) ==
    \/ WhileRunning(d)
    \/ Poll(d)
    \/ Enter(d)
    \/ BeginResearch(d)
    \/ InitialLookup(d)
    \/ CompanyResearcher(d)
    \/ LevelsDone(d)
    \/ SalaryDone(d)
    \/ FollowupLookup(d)
    \/ LinkedinDone(d)
    \/ CreateCompany(d)
    \/ ExitContext(d)
    \/ PollingInterval(d)
    \/ BackOff(d)

\* python research_daemon.py: the settings of the command line, then
\* ResearchDaemon.__init__, whose JobSearch makes the first wrapped call,
\* then start().
PipelineSettings ==
    { DefaultSettings,
      [DefaultSettings EXCEPT !.no_cache = TRUE],
      [DefaultSettings EXCEPT !.clear_cache = {BASIC_RESEARCH}],
      [DefaultSettings EXCEPT !.cache_until = Some(BASIC_RESEARCH)] }

ConstructJobSearch ==
    Stage(WrapperCall("load_previous_replies_to_recruiters", <<>>, <<>>),
          Some(ncalls + 1), FALSE)

StartDaemon ==
    /\ program = "daemon"
    /\ last.n > 0
    /\ Start(1)

ProduceResearch == \E args \in ArgsValues : CreateTask(COMPANY_RESEARCH, args)

PipelineProgram ==
    \/ \E settings \in PipelineSettings : MainDaemon(settings)
    \/ ConstructJobSearch
    \/ StartDaemon
    \/ PipelineRun(1)

PipelineNext ==
    \/ EarlierRuns
    \/ ProduceResearch
    \/ PipelineProgram
    \/ ChildStep
    \/ ParentStep

\* The daemon's steps are taken as long as one is possible, and the wait
\* of run_in_process ends: with an item or with the timeout.  The child
\* may hang for ever.
PipelineSpec ==
    Init /\ [][PipelineNext]_vars /\ WF_vars(PipelineProgram) /\ WF_vars(ParentStep)

-----------------------------------------------------------------------------
(* The claims *)

StatusOf(i) == FromValue(TaskStatus, tasks[i].status)
Terminal(i) == StatusOf(i) \in {COMPLETED, FAILED}
View(i) == get_task(tasks, tasks[i].id)[1]

AllowedSteps ==
    {<<PENDING, RUNNING>>, <<RUNNING, COMPLETED>>, <<RUNNING, FAILED>>}

\* C1: the status of a task changes only Pending -> Running,
\* Running -> Completed or Running -> Failed, whatever sequence of
\* create_task, update_task and daemon steps is taken; a Completed or
\* Failed task keeps its status.
C1_StatusMachine ==
    [][\A i \in DOMAIN tasks :
          \/ tasks'[i].status = tasks[i].status
          \/ <<StatusOf(i), FromValue(TaskStatus, tasks'[i].status)>> \in AllowedSteps]_vars

\* C2: with two daemons on one store, no task is received from
\* get_next_pending_task and moved to Running by more than one of them.
C2_SingleClaimer ==
    \A i \in DOMAIN claimedBy : Cardinality(claimedBy[i]) <= 1

SomeFailed == \E j \in DOMAIN tasks : StatusOf(j) = FAILED

\* C3: once the handler of a task has raised, the daemon goes on: every
\* task in the store, pending then or created later, eventually is
\* Completed or Failed.
C3_DaemonSurvivesFailure ==
    \A i \in 1..MaxTasks :
        (SomeFailed /\ Len(tasks) >= i) ~> (Len(tasks) >= i /\ Terminal(i))
\* a task has failed and a task inserted after it has been processed
C3_Witness ==
    \E i, j \in DOMAIN tasks :
        i < j /\ StatusOf(i) = FAILED /\ Terminal(j) /\ pc[1] # "stopped"

\* C4: every Failed task carries a non-empty error string.
C4_FailedHasError ==
    \A i \in DOMAIN tasks :
        StatusOf(i) = FAILED => View(i).error # None /\ View(i).error # Some("")

HasResult(i) == View(i).result # None
HasError(i) == View(i).error # None /\ View(i).error # Some("")

\* C5: a Completed task has a result and no error, a Failed task an error
\* and no result, a Pending or Running task neither (an empty error string
\* counts as no error).
C5_ResultXorError ==
    \A i \in DOMAIN tasks :
        /\ StatusOf(i) = COMPLETED => HasResult(i) /\ ~HasError(i)
        /\ StatusOf(i) = FAILED => HasError(i) /\ ~HasResult(i)
        /\ StatusOf(i) \in {PENDING, RUNNING} => ~HasResult(i) /\ ~HasError(i)

\* C6: a company-research task whose handler returned reads back, with
\* get_task, as Completed with a result and with error None.
C6_CompletedReadsBack ==
    \A i \in DOMAIN tasks :
        (View(i).type = COMPANY_RESEARCH /\ View(i).status = COMPLETED)
            => (View(i).result # None /\ View(i).error = None)

\* C7: a task whose type has no handler is eventually claimed and recorded
\* Failed (and so does not keep the tasks behind it from being processed).
C7_UnsupportedTypeFails ==
    \A i \in 1..MaxTasks :
        (Len(tasks) >= i /\ tasks[i].type = Value(ForeignType))
            ~> (Len(tasks) >= i /\ tasks[i].status = Value(FAILED))

PendingRows == {i \in DOMAIN tasks : StatusOf(i) = PENDING}
InsertedBefore(i, j) == born[i] < born[j] \/ (born[i] = born[j] /\ i < j)

\* C8: get_next_pending_task returns None exactly when no task is Pending,
\* and otherwise the Pending task that was inserted at the earliest time,
\* the earlier insertion deciding between equal times, whatever its type;
\* it never returns a task that is not Pending.
C8_OldestPendingFirst ==
    LET row == get_next_pending_task(tasks)
    IN  /\ row.kind \in {"none", "row"}
        /\ row.kind = "none" <=> PendingRows = {}
        /\ row.kind = "row" =>
              \E i \in PendingRows :
                  /\ row.id = tasks[i].id
                  /\ row.type = FromValue(TaskType, tasks[i].type)
                  /\ \A j \in PendingRows \ {i} : InsertedBefore(i, j)
\* two Pending tasks of different types inserted at the same clock reading:
\* the one inserted first is returned
C8_Witness ==
    \E i, j \in PendingRows :
        /\ i < j
        /\ tasks[i].type # tasks[j].type
        /\ born[i] = born[j]
        /\ get_next_pending_task(tasks).id = tasks[i].id

\* C9: update_task with an id that is not in the store ends in an error.
C9_UnknownIdRaises ==
    (call.op = "update_task" /\ call.id \notin Ids(tasks)) => call.raised

\* get_task on the id the last create_task returned gives that id, Pending,
\* the type that was passed, the given args, no result and no error.
ReadsBack(args) ==
    LET t == get_task(tasks, call.id)
    IN  /\ t # None
        /\ t[1].id = call.id
        /\ t[1].status = PENDING
        /\ t[1].type = call.type
        /\ t[1].args = args
        /\ t[1].result = None
        /\ t[1].error = None

StringKeyed(d) == \A i \in DOMAIN d : d[i][1].t = "str"

\* C10 as claimed: right after create_task(type, args), get_task on the
\* returned id reads back the same type and the same args, for every args.
C10_RoundTripAnyArgs ==
    call.op = "create_task" => ReadsBack(call.args)

\* C10, amended: the same for every args whose keys are strings (a dict
\* that JSON represents as it is).
C10_RoundTrip ==
    (call.op = "create_task" /\ StringKeyed(call.args)) => ReadsBack(call.args)
\* a second task was just created with string-keyed args
C10_Witness ==
    /\ call.op = "create_task"
    /\ StringKeyed(call.args)
    /\ call.args # <<>>
    /\ call.id = MaxTasks
    /\ get_task(tasks, call.id) # None

-----------------------------------------------------------------------------
(* The claims about the step cache *)

\* A wrapped stage has been called, and what the settings say of its step.
Called == last.n > 0
LastStep == StepOf(last.call.func)
UseCache == should_cache_step(cache_settings, LastStep)
ClearCache == should_clear_cache(cache_settings, LastStep)

\* The key of the last call was set earlier in this run and not removed since.
CalledAgain == Called /\ last.stored /\ ~last.removed

\* C11: with caching enabled for the stage and no clearing, the second of
\* two calls with identical arguments does not invoke the function and
\* returns what the first call returned, whatever value that is.
C11_TwiceInvokesOnce ==
    (CalledAgain /\ UseCache /\ ~ClearCache)
        => (~last.invoked /\ last.result = last.before[1].value)

\* C12: the call that follows the removal of its entry (by cache.delete, or
\* by the wrapper because should_clear_cache holds) invokes the function and
\* returns what the function returned.
C12_RemovedIsRecomputed ==
    (Called /\ (last.removed \/ ClearCache))
        => (last.invoked /\ last.result = last.fresh)
\* a stage was called after its stored entry had been deleted directly
C12_Witness ==
    /\ Called
    /\ last.removed
    /\ UseCache
    /\ ~ClearCache
    /\ last.fresh # None
    /\ last.result = last.fresh

\* C13 as stated: with caching disabled for the stage a call invokes the
\* function and does no get, no set and no delete, whatever the clear
\* settings are.
C13_DisabledTouchesNothing ==
    (Called /\ ~UseCache)
        => (last.invoked /\ ~last.read /\ ~last.written /\ ~last.deleted)

\* C13 amended: with caching disabled for the stage a call invokes the
\* function and returns its result, and the cache is what it was before
\* the call, less the entry of the key of the call if should_clear_cache
\* holds for the stage.
C13_DisabledNoReadWrite ==
    [][(last'.n > last.n /\ ~UseCache')
          => /\ last'.invoked
             /\ last'.result = last'.fresh
             /\ cache' = IF ClearCache'
                         THEN [cache EXCEPT ![KeyOf(last'.call)] = <<>>]
                         ELSE cache]_vars
\* a call with caching disabled deleted an entry that was present
C13_Witness ==
    /\ Called
    /\ ~UseCache
    /\ ClearCache
    /\ last.before # <<>>
    /\ cache[KeyOf(last.call)] = <<>>

\* C14: a call reads and writes the cache exactly if no_cache is unset and
\* cache_until is unset or is a step at or after the step of the stage
\* (a call whose function raises reads, and writes nothing).
C14_CachedUpToCeiling ==
    Called =>
        /\ ~last.raised => last.read = last.written
        /\ last.read = (/\ ~cache_settings.no_cache
                        /\ \/ cache_settings.cache_until = None
                           \/ LastStep <= cache_settings.cache_until[1])
        /\ ~last.read => last.invoked
\* a stage at the ceiling itself was called and served through the cache
C14_Witness ==
    /\ Called
    /\ ~cache_settings.no_cache
    /\ cache_settings.cache_until = Some(LastStep)
    /\ last.read
    /\ last.written

\* C15: in a run with clear_all_cache, of either program, the cache is
\* empty before the first wrapped stage is called.
C15_ClearAllEmptiesCache ==
    (program \in {"cli", "daemon"} /\ cache_settings.clear_all_cache /\ ~Called)
        => cache = EmptyCache

\* C16: in a run whose clear_cache contains the step of a stage, no call of
\* the stage deletes an entry that was set earlier in the same run.
C16_ClearedOnlyBeforeRun ==
    (Called /\ last.stored /\ LastStep \in cache_settings.clear_cache)
        => ~last.deleted

\* C17: an entry serves exactly the calls with the triple (step, function
\* name, fingerprint of the arguments) of the call that set it.
C17_EntrySharedIffSameTriple ==
    /\ \A c \in Calls :
          cache[KeyOf(c)] # <<>> => cache[KeyOf(c)][1].by = Triple(c)
    /\ (Called /\ last.read /\ last.before # <<>>)
          => last.before[1].by = Triple(last.call)
    /\ Called
          => \A c \in Calls :
                Triple(c) = Triple(last.call) => KeyOf(c) = KeyOf(last.call)
\* a call was served from an entry that a call of this run had set, while
\* entries of other functions and arguments were present
C17_Witness ==
    /\ CalledAgain
    /\ ~last.invoked
    /\ \E c \in Calls : /\ Triple(c) # Triple(last.call)
                        /\ cache[KeyOf(c)] # <<>>

-----------------------------------------------------------------------------
(* The claim about the key *)

\* Position i of s lies in a match of " at 0x" followed by hex digits.
InAddress(s, i) ==
    \E j \in 1..i :
        /\ s[j] = At0x
        /\ j < Len(s)
        /\ s[j + 1] \in HexDigits
        /\ \A k \in (j + 1)..i : s[k] \in HexDigits

RECURSIVE OutsideFrom(_, _)
OutsideFrom(s, i) ==
    IF i > Len(s) THEN <<>>
    ELSE (IF InAddress(s, i) THEN <<>> ELSE <<s[i]>>) \o OutsideFrom(s, i + 1)

\* The text of s that is no embedded address.
Outside(s) == OutsideFrom(s, 1)

DifferOnlyInAddresses(a, b) ==
    /\ Outside(a.args) = Outside(b.args)
    /\ Outside(a.kwargs) = Outside(b.kwargs)

\* C18: two calls of one wrapped stage have the same key exactly if
\* str(args) and str(kwargs) of the two differ in embedded addresses only.
C18_KeyIgnoresAddressesOnly ==
    render.func # ""
        => ((render.keys[1] = render.keys[2])
               = DifferOnlyInAddresses(render.a, render.b))
\* two calls whose renderings differ, in an address only, and share a key
C18_Witness ==
    /\ render.func # ""
    /\ render.a.args # render.b.args
    /\ Len(render.a.args) = Len(render.b.args)
    /\ DifferOnlyInAddresses(render.a, render.b)
    /\ render.keys[1] = render.keys[2]

-----------------------------------------------------------------------------
(* The claims about run_in_process *)

\* C19: if func raised in the child and the parent did not run into the
\* timeout, run_in_process raises an exception of the type and with the
\* message of the one func raised; it returns no value.
C19_RaisedIsReraised ==
    (did.kind = "raise" /\ ~expired /\ outcome.kind # "none")
        => outcome = Raises(did.type, did.msg)

\* C20: when the wait for the result runs into the timeout, run_in_process
\* raises TimeoutError with a message that names the function and the
\* timeout; the parent sends SIGTERM only to a child it found alive after
\* the sleep, and SIGKILL only after SIGTERM and the join that follows it,
\* to a child it found still alive.
C20_TerminateBeforeKill ==
    [][/\ (expired' /\ ~expired)
            => /\ outcome' = Raises("TimeoutError",
                                    <<"Function ", target, " timed out after ",
                                      "120", " seconds">>)
               /\ signals' = <<>>
       /\ (parent' = "terminate" /\ parent # "terminate")
            => (parent = "sleep" /\ Alive /\ signals = <<>>)
       /\ (parent' = "kill" /\ parent # "kill")
            => (parent = "join" /\ Alive /\ signals = <<"SIGTERM">>)
       /\ (signals' # signals)
            => \/ (parent = "terminate" /\ signals' = <<"SIGTERM">>)
               \/ (parent = "kill" /\ signals' = <<"SIGTERM", "SIGKILL">>)
       /\ (outcome.kind # "none") => outcome' = outcome]_vars
\* the wait timed out, and the child outlived SIGTERM and was sent SIGKILL
C20_Witness ==
    /\ expired
    /\ outcome.type = "TimeoutError"
    /\ signals = <<"SIGTERM", "SIGKILL">>
    /\ parent = "done"

\* C21: whenever run_in_process has handed control back to its caller
\* (value returned, child's exception re-raised, or TimeoutError), the child
\* process has exited and has been reaped, the path through kill() included.
C21_ChildReaped ==
    parent = "done" => child = "reaped"

\* C22: an exception that run_in_process raises without having run into
\* the timeout never has the type of the error raised on expiry, so the
\* caller can tell the two apart by type.
C22_TimeoutTypeIsDistinct ==
    (outcome.kind = "raise" /\ outcome.type = "TimeoutError") => expired

-----------------------------------------------------------------------------
(* The claims about shutdown, store failures, crashes and the frame of the
   store operations *)

\* The handler of SIGINT/SIGTERM has run in a daemon that was started.
Signalled == pc[1] \notin {"off", "stopped"} /\ ~running[1]

\* C23: once a shutdown signal has been delivered to a started daemon,
\* the daemon takes no further task from the store: no call of
\* get_next_pending_task made after the signal hands it a row.
C23_NoClaimAfterSignal ==
    [][Signalled => ~(pc[1] = "poll" /\ pc'[1] = "enter")]_vars

\* C24: when a store call of the poll cycle raises, the loop does not end
\* but goes to its back-off and no row changes; after the back-off the
\* daemon polls again; and with the store working again every pending
\* task is taken out of Pending.
C24_FailedPollBacksOff ==
    /\ [][outages' < outages => (tasks' = tasks /\ pc'[1] = "backoff")]_vars
    /\ (pc[1] = "backoff") ~> (pc[1] = "poll")
    /\ \A i \in 1..MaxTasks :
          (i <= Len(tasks) /\ StatusOf(i) = PENDING)
              ~> (i <= Len(tasks) /\ StatusOf(i) # PENDING)
\* get_next_pending_task has raised while a task was pending
C24_Witness ==
    /\ pc[1] = "backoff"
    /\ call.op = "get_next_pending_task"
    /\ call.raised
    /\ \E i \in 1..Len(tasks) : StatusOf(i) = PENDING

\* A Running task that no live daemon holds: its daemon died.
Orphaned(i) ==
    /\ i <= Len(tasks)
    /\ StatusOf(i) = RUNNING
    /\ cur[1].id # tasks[i].id

\* C25: a task that is Running while the daemon that ran it is dead stays
\* as it is through every later step (restarts and polls included) and is
\* never handed out by get_next_pending_task again.
C25_OrphanStaysRunning ==
    [][\A i \in 1..MaxTasks :
          Orphaned(i) => (tasks'[i] = tasks[i] /\ cur'[1].id # tasks[i].id)]_vars
\* the daemon was started again and its poll found nothing to do
C25_Witness ==
    /\ \E i \in 1..Len(tasks) : Orphaned(i)
    /\ pc[1] = "sleep"
    /\ call.op = "get_next_pending_task"

\* C26: a task that get_task finds is still found by get_task after any
\* step, a construction of TaskManager on the same database included.
C26_TasksOnlyGrow ==
    [][\A task_id \in Ids(tasks) : get_task(tasks', task_id) # None]_vars

\* C27: a step that rewrites a row of the table changes one row only, and
\* of that row only status, result, error and updated_at; updated_at
\* becomes the time of the call.
C27_UpdateTouchesOneRow ==
    [][(Len(tasks') = Len(tasks) /\ tasks' # tasks)
        => \E i \in 1..Len(tasks) :
              /\ \A j \in 1..Len(tasks) : j # i => tasks'[j] = tasks[j]
              /\ tasks'[i].id = tasks[i].id
              /\ tasks'[i].type = tasks[i].type
              /\ tasks'[i].args = tasks[i].args
              /\ tasks'[i].created_at = tasks[i].created_at
              /\ tasks'[i].updated_at = IsoFormat(now)]_vars
\* one of two tasks went to Running at a later time than it was created
C27_Witness ==
    /\ Len(tasks) = 2
    /\ \E i \in 1..2 :
          /\ StatusOf(i) = RUNNING
          /\ tasks[i].updated_at # tasks[i].created_at
          /\ StatusOf(3 - i) = PENDING

\* C28: a call of get_next_pending_task and a call of get_task leave the
\* table as it is; the row get_next_pending_task returns is still Pending
\* after the call; get_task returns None for an id no task has, and a
\* task for an id some task has.
C28_ReadsChangeNothing ==
    [][/\ (pc[1] = "poll" /\ pc'[1] # "poll")
            => /\ tasks' = tasks
               /\ cur'[1].kind = "row"
                    => \E i \in 1..Len(tasks') :
                          /\ tasks'[i].id = cur'[1].id
                          /\ tasks'[i].status = Value(PENDING)
       /\ (call'.op = "get_task" /\ call' # call)
            => /\ tasks' = tasks
               /\ (call'.returned = None) <=> (call'.id \notin Ids(tasks))]_vars
\* a poll has returned a row, and get_task was then asked for an unknown id
C28_Witness ==
    /\ pc[1] = "enter"
    /\ call.op = "get_task"
    /\ call.id \notin Ids(tasks)
    /\ call.returned = None
    /\ \E i \in 1..Len(tasks) : tasks[i].id = cur[1].id /\ StatusOf(i) = PENDING

-----------------------------------------------------------------------------
(* The claims about the cache and failure *)

\* C29: when the function of a wrapped stage raises, the wrapper raises,
\* sets nothing, and leaves the cache as it was before the call, less the
\* entry of the key of the call if should_clear_cache holds for the stage.
C29_RaiseWritesNothing ==
    [][(last'.n > last.n /\ last'.raised)
          => /\ last'.invoked
             /\ ~last'.written
             /\ cache' = IF ClearCache'
                         THEN [cache EXCEPT ![KeyOf(last'.call)] = <<>>]
                         ELSE cache]_vars
\* the function raised in a cached stage whose entry the clear policy had
\* just deleted
C29_Witness ==
    /\ Called
    /\ last.raised
    /\ UseCache
    /\ ClearCache
    /\ last.before # <<>>
    /\ cache[KeyOf(last.call)] = <<>>

\* C30: a stage whose result a process stored before it died is, in a
\* later run with caching enabled for the stage and no clearing, served
\* from the cache: the call with the same arguments does not invoke the
\* function.
C30_HitAfterRestart ==
    (Called /\ last.kept /\ UseCache /\ ~ClearCache) => ~last.invoked

-----------------------------------------------------------------------------
(* The claims about the single consumer and the handlers *)

NumberRunning == Cardinality({i \in 1..Len(tasks) : StatusOf(i) = RUNNING})

C32_RunningEndsTerminal ==
    /\ \A i \in 1..MaxTasks :
          (i <= Len(tasks) /\ StatusOf(i) = RUNNING)
              ~> (i <= Len(tasks) /\ Terminal(i))
    /\ [][\A i \in 1..Len(tasks) :
            (tasks'[i].status # tasks[i].status
               /\ tasks'[i].status \in {Value(COMPLETED), Value(FAILED)})
              => /\ pc[1] = "exit"
                 /\ cur[1].id = tasks[i].id
                 /\ StatusOf(i) = RUNNING
                 /\ tasks'[i].status = IF exc[1] = None
                                       THEN Value(COMPLETED)
                                       ELSE Value(FAILED)]_vars
\* one task's handler returned and another's raised
C32_Witness ==
    /\ \E i \in 1..Len(tasks) : StatusOf(i) = COMPLETED
    /\ \E i \in 1..Len(tasks) : StatusOf(i) = FAILED

\* C33: after __exit__ has recorded Failed for an exception of the
\* handler, the loop goes to the polling interval, not to the back-off.
C33_HandlerErrorAbsorbed ==
    [][(pc[1] = "exit" /\ exc[1] # None /\ pc'[1] # "exit") => pc'[1] = "sleep"]_vars

\* The company a research task names, if its args have the key.
Names(a) == IF DictHas(a, CompanyNameKey) THEN {DictGet(a, CompanyNameKey)} ELSE {}

\* C36: the handler of a research task that names a company leaves the
\* repository without a record of that company when research raised, and
\* with one when research returned; the task whose handler raised is
\* then recorded Failed.
C36_DeleteNotRolledBack ==
    [][/\ (pc[1] = "handler" /\ pc'[1] = "exit" /\ cur[1].type = COMPANY_RESEARCH)
            => \A n \in Names(cur[1].args) :
                  (exc'[1] # None) <=> (companies'[n] = None)
       /\ (pc[1] = "exit" /\ exc[1] # None /\ pc'[1] # "exit")
            => \E i \in 1..Len(tasks) :
                  tasks[i].id = cur[1].id /\ tasks'[i].status = Value(FAILED)]_vars
\* a first task created the company, research raised in a second task for
\* it, and the company is gone
C36_Witness ==
    /\ Len(tasks) = 2
    /\ \A i \in 1..2 : /\ tasks[i].type = Value(COMPANY_RESEARCH)
                        /\ Names(JsonLoads(tasks[i].args)) # {}
    /\ StatusOf(1) = COMPLETED
    /\ StatusOf(2) = FAILED
    /\ \A n \in CompanyNames : companies[n] = None

-----------------------------------------------------------------------------
(* The claims about None and about hits *)

\* C37: with caching enabled for the stage and no clearing, a call that
\* finds an entry invokes the function exactly if the stored value is None.
C37_NoneIsAMiss ==
    (Called /\ UseCache /\ ~ClearCache /\ last.before # <<>>)
        => (last.invoked <=> last.before[1].value = None)
\* a stage that stored None in this run was called again and invoked again
C37_Witness ==
    /\ CalledAgain
    /\ UseCache
    /\ ~ClearCache
    /\ last.before # <<>>
    /\ last.before[1].value = None
    /\ last.invoked

\* C38: a call that is served from the cache leaves every key with the
\* entry it had before the call.
C38_HitChangesNothing ==
    [][(last'.n > last.n /\ ~last'.invoked) => cache' = cache]_vars
\* a call was served from the cache while another key had an entry
C38_Witness ==
    /\ Called
    /\ ~last.invoked
    /\ last.written
    /\ \E k \in Keys : k # KeyOf(last.call) /\ cache[k] # <<>>

\* The stage events of the research in progress.
Event(k) == stages[k]
IsEvent(k, stage_call, what) == Event(k) = Did(stage_call, what)

\* C35: within one company-research task the stages run in a fixed order
\* and never in parallel: every stage that was called has returned or
\* raised before any other stage is called, followup_research_company is
\* called only directly after initial_research_company has returned for
\* the same task, and nothing is called after a stage has raised.
C35_StagesInOrder ==
    \A k \in 1..Len(stages) :
        /\ (Event(k).what = "call" /\ k < Len(stages))
              => /\ Event(k + 1).stage = Event(k).stage
                 /\ Event(k + 1).what \in {"return", "raise"}
        /\ IsEvent(k, FollowupCall, "call")
              => /\ k = 3
                 /\ IsEvent(1, InitialCall, "call")
                 /\ IsEvent(2, InitialCall, "return")
        /\ Event(k).what = "raise" => k = Len(stages)

C35_Witness ==
    /\ \E k \in 1..Len(stages) : IsEvent(k, FollowupCall, "call")
    /\ \E i \in 1..Len(tasks) : StatusOf(i) = FAILED
    /\ pc[1] \in {"linkedin", "create", "exit"}

\* The exception run_in_process raises when the child did not answer in time.
TimedOut == outcome = Raises("TimeoutError", TimeoutMessage(target, DefaultTimeout))

TimeoutTexts == {Cat(TimeoutMessage(func, DefaultTimeout)) : func \in Targets}

InChild == {"levels", "salary", "linkedin"}

\* C34: when run_in_process raises TimeoutError inside a cached stage run
\* by the daemon, the error leaves the stage and the handler: that step
\* writes nothing to the cache, the company of the task has no record, and
\* the handler ends with the text of the TimeoutError; the task context
\* records the task as Failed with that text, and the loop of start() is
\* still running afterwards, on its way to the next poll.
C34_TimeoutFailsTheTask ==
    /\ [][(pc[1] \in InChild /\ pc'[1] # pc[1] /\ TimedOut)
            => /\ pc'[1] = "exit"
               /\ exc'[1] = Some(Cat(TimeoutMessage(target, DefaultTimeout)))
               /\ cache' = cache
               /\ \A n \in Names(cur[1].args) : companies'[n] = None]_vars
    /\ [][(pc[1] = "exit" /\ exc[1] # None /\ exc[1][1] \in TimeoutTexts /\ pc'[1] # "exit")
            => /\ \E i \in 1..Len(tasks) :
                     /\ tasks[i].id = cur[1].id
                     /\ tasks'[i].status = Value(FAILED)
                     /\ tasks'[i].error = exc[1]
               /\ \A n \in Names(cur[1].args) : companies'[n] = None
               /\ running'[1] = running[1]
               /\ pc'[1] \in {"sleep", "backoff"}]_vars
    /\ [][(pc[1] \in {"sleep", "backoff"} /\ pc'[1] # pc[1]) => pc'[1] = "loop"]_vars

\* A task has failed with the timeout of a stage and the daemon has
\* claimed the next one.
C34_Witness ==
    /\ Len(tasks) = 2
    /\ StatusOf(1) = FAILED
    /\ tasks[1].error # None
    /\ tasks[1].error[1] \in TimeoutTexts
    /\ StatusOf(2) = RUNNING
    /\ \E k \in Keys : cache[k] # <<>>


====
